---- MODULE Spec2Model ----
(***************************************************************************)
(* Model of the workflow execution engine of                               *)
(* src/src/services/workflowExecution.ts: topologicalSort, executeNode and *)
(* its type-specific handlers, and the executeWorkflow run lifecycle.      *)
(*                                                                         *)
(* Conventions.                                                            *)
(*  - A JavaScript string that the code inspects (title, content, a filter *)
(*    value) is a sequence of one-character strings, so that toLowerCase   *)
(*    and includes are computed character by character.                    *)
(*  - An object with optional fields (context.data, metadata) is a         *)
(*    function whose DOMAIN is the set of fields that are present.         *)
(*  - An optional value is a sequence of length 0 (absent) or 1.           *)
(*  - An executionId is a sequence of tokens; the template literal         *)
(*    `${a}-${b}-${i}` appends the tokens "-", b, "-", ToStr(i).           *)
(*  - Every await of a collaborator (store, remote function) is one step;  *)
(*    its outcome is chosen by the environment.                            *)
(***************************************************************************)
EXTENDS Integers, Sequences, FiniteSets, TLC

VARIABLES
    nodes,              \* executeWorkflow argument: the WorkflowNode list
    triggerData,        \* executeWorkflow argument: optional trigger payload
    pc,                 \* position of the run in executeWorkflow
    record,             \* the persisted workflow_executions row of this run
    sortedIdx,          \* sortedNodes, as positions in `nodes`
    executionContexts,  \* the current generation
    newContexts,        \* the generation being built for the current node
    ni,                 \* position of the current node in sortedNodes
    ci,                 \* position of the current context in the generation
    caught,             \* the error caught by the outer catch, if any
    outcome,            \* what the caller receives: a record list or an error
    updates,            \* history: store updates issued, in order
    trace,              \* history: executeNode invocations, in order
    calls               \* history: remote function invocations, in order

vars == <<nodes, triggerData, pc, record, sortedIdx, executionContexts,
          newContexts, ni, ci, caught, outcome, updates, trace, calls>>

-----------------------------------------------------------------------------
(* Bounds of the model. *)

\* Longest node list of a run of executeWorkflow.
MaxNodes == 3
\* Most items a discovery collaborator returns in one response.
MaxItems == 2
\* Longest node list handed to topologicalSort on its own.
MaxSortNodes == 2
\* Most entries in one node's `connected` list handed to topologicalSort.
MaxConnected == 1
\* Longest rule list of a filter node run on its own.
MaxRules == 1
\* Longest rule list of a filter node whose rules are taken in every order.
MaxOrderedRules == 2
\* Most research, synthesis, AI and publisher nodes in one run of remote
\* nodes.
MaxSinks == 1

-----------------------------------------------------------------------------
(* Generic helpers. *)

Range(s) == {s[i] : i \in DOMAIN s}

\* All sequences over S of length at most n.
SeqsUpTo(S, n) == UNION {[1..k -> S] : k \in 0..n}

\* Object spread { ...f, ...g }: the fields of g override those of f.
Merge(f, g) ==
    [k \in (DOMAIN f) \cup (DOMAIN g) |-> IF k \in DOMAIN g THEN g[k] ELSE f[k]]

\* f[k] when the field is present, else the default d (JavaScript `f.k || d`
\* for the fields whose present values are always truthy).
Get(f, k, d) == IF k \in DOMAIN f THEN f[k] ELSE d

-----------------------------------------------------------------------------
(* JavaScript strings as character sequences. *)

UpperChars == <<"A","B","C","D","E","F","G","H","I","J","K","L","M",
                "N","O","P","Q","R","S","T","U","V","W","X","Y","Z">>
LowerChars == <<"a","b","c","d","e","f","g","h","i","j","k","l","m",
                "n","o","p","q","r","s","t","u","v","w","x","y","z">>

LowerChar(c) ==
    IF \E i \in DOMAIN UpperChars : UpperChars[i] = c
    THEN LowerChars[CHOOSE i \in DOMAIN UpperChars : UpperChars[i] = c]
    ELSE c

\* toLowerCase leaving every character as it is.
toLowerCaseKeepsCase(s) == s

\* String.prototype.toLowerCase
toLowerCase(s) == [i \in 1..Len(s) |-> LowerChar(s[i])]

\* String.prototype.includes
includes(s, sub) ==
    \E i \in 0..(Len(s) - Len(sub)) : SubSeq(s, i + 1, i + Len(sub)) = sub

\* Decimal rendering of a small index inside a template literal.
Digits == <<"0","1","2","3","4","5","6","7","8","9">>
RECURSIVE ToStr(_)
ToStr(n) == IF n < 10 THEN Digits[n + 1]
            ELSE ToStr(n \div 10) \o Digits[(n % 10) + 1]

-----------------------------------------------------------------------------
(* topologicalSort (workflowExecution.ts 520-563).                         *)
(* The mutable locals sorted / visited / visiting are threaded through the *)
(* recursion as a record; err is set where the code throws, and every      *)
(* caller returns at once when it is set (the exception unwinds).          *)

SortStart == [sorted |-> <<>>, visited |-> {}, visiting |-> {}, err |-> FALSE]

\* find returning the last match instead of the first.
FindNodeLast(ns, nodeId) ==
    IF \E i \in DOMAIN ns : ns[i].id = nodeId
    THEN CHOOSE i \in DOMAIN ns :
            /\ ns[i].id = nodeId
            /\ \A j \in DOMAIN ns : ns[j].id = nodeId => j <= i
    ELSE 0

\* nodes.find(n => n.id === nodeId): position of the first match, 0 if none.
FindNode(ns, nodeId) ==
    IF \E i \in DOMAIN ns : ns[i].id = nodeId
    THEN CHOOSE i \in DOMAIN ns :
            /\ ns[i].id = nodeId
            /\ \A j \in DOMAIN ns : ns[j].id = nodeId => i <= j
    ELSE 0

\* Enter with the node marked done on entry instead of in progress: a
\* node met again on the recursion path then looks finished.
EnterAsVisited(st, nodeId) == [st EXCEPT !.visited = @ \cup {nodeId}]

\* visiting.add(nodeId), line 533.
Enter(st, nodeId) == [st EXCEPT !.visiting = @ \cup {nodeId}]

\* Emit without visited.add(nodeId): the node is emitted at every visit.
EmitSkipVisited(st, idx, nodeId) ==
    [st EXCEPT !.sorted = Append(@, idx), !.visiting = @ \ {nodeId}]

\* Lines 542-543 and 546: emit the node once its connected nodes are done.
Emit(st, idx, nodeId) ==
    [st EXCEPT !.sorted = Append(@, idx),
               !.visited = @ \cup {nodeId},
               !.visiting = @ \ {nodeId}]

RECURSIVE visit(_, _, _), visitConnected(_, _, _, _)
\* visit(nodeId), lines 525-547.
visit(ns, nodeId, st) ==
    IF st.err THEN st
    ELSE IF nodeId \in st.visiting THEN [st EXCEPT !.err = TRUE]
    ELSE IF nodeId \in st.visited THEN st
    ELSE LET st1 == Enter(st, nodeId)
             idx == FindNode(ns, nodeId)
         IN  IF idx = 0
             THEN [st1 EXCEPT !.visiting = @ \ {nodeId}]
             ELSE LET st2 == visitConnected(ns, ns[idx].connected, 1, st1)
                  IN  IF st2.err THEN st2 ELSE Emit(st2, idx, nodeId)

\* for (const connectedId of node.connected) visit(connectedId), lines 538-540.
visitConnected(ns, connected, k, st) ==
    IF st.err \/ k > Len(connected) THEN st
    ELSE visitConnected(ns, connected, k + 1, visit(ns, connected[k], st))

\* Lines 550-553: visit every trigger node, in input order.
RECURSIVE visitTriggers(_, _, _)
visitTriggers(ns, i, st) ==
    IF st.err \/ i > Len(ns) THEN st
    ELSE visitTriggers(ns, i + 1,
            IF ns[i].type = "trigger" THEN visit(ns, ns[i].id, st) ELSE st)

\* The second loop left out: only what the trigger nodes reach is visited.
visitRemainingNone(ns, i, st) == st

\* Lines 556-560: visit any remaining node, in input order.
RECURSIVE visitRemaining(_, _, _)
visitRemaining(ns, i, st) ==
    IF st.err \/ i > Len(ns) THEN st
    ELSE visitRemaining(ns, i + 1,
            IF ns[i].id \notin st.visited THEN visit(ns, ns[i].id, st) ELSE st)

\* The result: err (the circular-dependency Error was thrown) or the sorted
\* nodes, given as their positions in the input list.
topologicalSort(ns) ==
    LET st == visitRemaining(ns, 1, visitTriggers(ns, 1, SortStart))
    IN  [err |-> st.err, sorted |-> IF st.err THEN <<>> ELSE st.sorted]

CircularMessage == "Circular dependency detected in workflow"

-----------------------------------------------------------------------------
(* Payloads (`any` in the source).                                         *)
(* A payload is an object, given by its present fields, or an array, given *)
(* by its elements; Array.isArray reads the tag.                           *)

Obj(f) == [isArray |-> FALSE, fields |-> f, elems |-> <<>>]
Arr(e) == [isArray |-> TRUE, fields |-> <<>>, elems |-> e]
EmptyObj == Obj(<<>>)

\* Own enumerable properties, as read by `x.k` and by the spread { ...x }:
\* an array spreads to its index keys "0", "1", ...
Props(d) ==
    IF d.isArray
    THEN [k \in {Digits[i] : i \in DOMAIN d.elems} |->
            d.elems[CHOOSE i \in DOMAIN d.elems : Digits[i] = k]]
    ELSE d.fields

TitleLaunch == <<"P","r","o","d","u","c","t"," ","l","a","u","n","c","h"," ","t","o","d","a","y">>
TitleWeather == <<"W","e","a","t","h","e","r"," ","u","p","d","a","t","e">>
KeywordLaunch == <<"l","a","u","n","c","h">>

LaunchArticle == Obj([title |-> TitleLaunch])
WeatherArticle == Obj([title |-> TitleWeather])
Articles == {LaunchArticle, WeatherArticle}

\* The id of the row returned by the initial insert (execution.id).
ExecutionId == <<"e1">>

\* ChildId with the index left out: every child of a context gets one id.
ChildIdNoIndex(parentId, nodeId, index) == parentId \o <<"-", nodeId>>

\* The child id built on the run's record id instead of the parent's id.
ChildIdDropsParent(parentId, nodeId, index) ==
    ExecutionId \o <<"-", nodeId, "-">> \o ToStr(index)

\* `${context.executionId}-${node.id}-${index}` (line 76); index is 0-based.
ChildId(parentId, nodeId, index) ==
    parentId \o <<"-", nodeId, "-">> \o ToStr(index)

\* `${node.type}_${node.id}` (lines 78 and 86), as the one string it is.
MetaKey(node) == node.type \o "_" \o node.id

-----------------------------------------------------------------------------
(* Remote collaborators: supabase.functions.invoke(name, { body }) resolves *)
(* to { data, error }.  A response is an error, a list of items (discovery *)
(* functions) or one opaque result (the other functions).                  *)

RemoteFailure == [failed |-> TRUE, items |-> <<>>, data |-> "error"]
ItemsResponse(l) == [failed |-> FALSE, items |-> l, data |-> "items"]
DataResponse(x) == [failed |-> FALSE, items |-> <<>>, data |-> x]
NoResponse == [failed |-> FALSE, items |-> <<>>, data |-> "local"]

DiscoveryTypes == {"news-discovery", "rss-aggregator", "google-scholar-search"}
SingleRemoteTypes ==
    {"perplexity-research", "multi-source-synthesizer", "ai-processor", "publisher"}

\* The remote function a node type invokes.
FunctionOf(type) ==
    CASE type = "news-discovery" -> "news-discovery"
      [] type = "rss-aggregator" -> "rss-aggregator"
      [] type = "google-scholar-search" -> "google-scholar-search"
      [] type = "perplexity-research" -> "perplexity-research"
      [] type = "multi-source-synthesizer" -> "multi-source-synthesizer"
      [] type = "ai-processor" -> "ai-content-generator"
      [] type = "publisher" -> "create-article-from-ai"
      [] OTHER -> "none"

\* The first k items a discovery function finds: the two articles in turn.
Feed(k) == [i \in 1..k |-> IF i % 2 = 1 THEN LaunchArticle ELSE WeatherArticle]

\* data.papers of google-scholar-search (line 315): the same items with
\* authors given as an array on the odd ones and as a string on the others.
Papers(k) ==
    [i \in 1..k |->
        Obj(Merge(Props(Feed(k)[i]),
                  [authors |-> IF i % 2 = 1 THEN Arr(<<<<"S","m">>>>) ELSE <<"S","m">>]))]

\* What the environment may answer to the call a node of this type makes.
Responses(type) ==
    IF type = "google-scholar-search"
    THEN {RemoteFailure} \cup {ItemsResponse(Papers(k)) : k \in 0..MaxItems}
    ELSE IF type \in DiscoveryTypes
    THEN {RemoteFailure} \cup {ItemsResponse(Feed(k)) : k \in 0..MaxItems}
    ELSE IF type \in SingleRemoteTypes
    THEN {RemoteFailure, DataResponse(FunctionOf(type))}
    ELSE {NoResponse}

-----------------------------------------------------------------------------
(* Node handlers (workflowExecution.ts 141-517).  A handler result is the  *)
(* resolved value (an array, a single value, null) or a thrown error.      *)

ResArray(l) == [kind |-> "array", items |-> l]
ResSingle(x) == [kind |-> "single", items |-> <<x>>]
ResNull == [kind |-> "null", items |-> <<>>]
ResThrow == [kind |-> "throw", items |-> <<>>]

\* A returned value as executeWorkflow sees it: Array.isArray decides.
Returned(x) == IF x.isArray THEN ResArray(x.elems) ELSE ResSingle(x)

\* executeTriggerNode returning nothing.
executeTriggerNodeReturnsNull(node, context) == ResNull

\* Lines 179-182.
executeTriggerNode(node, context) == Returned(context.data)

\* Lines 184-264; the request body does not influence the result.
executeNewsDiscoveryNode(node, context, resp) ==
    IF resp.failed THEN ResThrow
    ELSE ResArray([i \in DOMAIN resp.items |->
            Obj(Merge(Props(resp.items[i]),
                      [source_type |-> "news_discovery",
                       execution_context |-> context.executionId]))])

\* Lines 266-293.
executeRssAggregatorNode(node, context, resp) ==
    IF resp.failed THEN ResThrow
    ELSE ResArray([i \in DOMAIN resp.items |->
            Obj(Merge(Props(resp.items[i]),
                      [source_type |-> "rss",
                       execution_context |-> context.executionId]))])

\* The clock reading `new Date()` returns during the run, as a time value.
Now == 2

\* Array.isArray(v) on a field value (line 331): true for an array payload,
\* false for a string (a character sequence) and for an object.
IsArrayValue(v) ==
    /\ DOMAIN v = {"isArray", "fields", "elems"}
    /\ v.isArray

\* Array.isArray(paper.authors) ? paper.authors : [] (line 331).
AuthorsOf(p) ==
    IF "authors" \in DOMAIN p /\ IsArrayValue(p["authors"])
    THEN p["authors"] ELSE Arr(<<>>)

\* Lines 295-344: each paper is rebuilt field by field.
ScholarResult(paper, context) ==
    LET p == Props(paper)
        abstract == Get(p, "abstract", <<>>)
        url == Get(p, "url", <<>>)
        fixed == [content |-> abstract, description |-> abstract, url |-> url,
                  source_type |-> "academic", source_url |-> url,
                  published_date |-> Now,
                  authors |-> AuthorsOf(p),
                  citations |-> Get(p, "citations", 0),
                  venue |-> Get(p, "venue", <<>>),
                  execution_context |-> context.executionId]
    IN  Obj(IF "title" \in DOMAIN p
            THEN Merge(fixed, [title |-> p["title"]]) ELSE fixed)

executeGoogleScholarNode(node, context, resp) ==
    IF resp.failed THEN ResThrow
    ELSE ResArray([i \in DOMAIN resp.items |-> ScholarResult(resp.items[i], context)])

\* executePerplexityResearchNode without the spread of context.data.
executePerplexityResearchNodeNoSpread(node, context, resp) ==
    IF resp.failed THEN ResThrow
    ELSE ResSingle(Obj([research_data |-> resp.data, source_type |-> "research",
                        execution_context |-> context.executionId]))

\* Lines 346-370.
executePerplexityResearchNode(node, context, resp) ==
    IF resp.failed THEN ResThrow
    ELSE ResSingle(Obj(Merge(Props(context.data),
            [research_data |-> resp.data, source_type |-> "research",
             execution_context |-> context.executionId])))

\* Lines 372-396.
executeMultiSourceSynthesizerNode(node, context, resp) ==
    IF resp.failed THEN ResThrow
    ELSE ResSingle(Obj(Merge(Props(context.data),
            [synthesized_content |-> resp.data,
             execution_context |-> context.executionId])))

\* Lines 398-423.
executeAiProcessorNode(node, context, resp) ==
    IF resp.failed THEN ResThrow
    ELSE ResSingle(Obj(Merge(Props(context.data),
            [ai_content |-> resp.data,
             execution_context |-> context.executionId])))

\* A filter rule { type, operator, value }: value is text for a keyword rule
\* and a number (a score, or a date's time value) for the other kinds.
Rule(type, operator, text, num) ==
    [type |-> type, operator |-> operator, text |-> text, num |-> num]
KeywordRule(text) == Rule("keyword", "", text, 0)

\* `data.k?.toLowerCase().includes(v.toLowerCase())`: undefined (falsy) when
\* the field is missing.
FieldIncludes(p, k, v) ==
    k \in DOMAIN p /\ includes(toLowerCase(p[k]), toLowerCase(v))

\* new Date(data.publishedAt || data.published_date): the time value, or
\* absent for an Invalid Date (NaN).
ArticleDate(p) ==
    IF "publishedAt" \in DOMAIN p /\ p["publishedAt"] # 0 THEN <<p["publishedAt"]>>
    ELSE IF "published_date" \in DOMAIN p THEN <<p["published_date"]>>
    ELSE <<>>

\* a <= b and a >= b on dates: false when the left side is NaN.
DateLeq(a, b) == a # <<>> /\ a[1] <= b
DateGeq(a, b) == a # <<>> /\ a[1] >= b

\* data.priority_score || 1
ScoreDefaultOne(p) == IF "priority_score" \in DOMAIN p THEN p["priority_score"] ELSE 1

\* data.priority_score || 0
Score(p) == IF "priority_score" \in DOMAIN p THEN p["priority_score"] ELSE 0

\* One iteration of the switch at lines 433-459: TRUE when it returns null.
Rejects(rule, p) ==
    CASE rule.type = "keyword" ->
            /\ ~FieldIncludes(p, "title", rule.text)
            /\ ~FieldIncludes(p, "content", rule.text)
      [] rule.type = "date" ->
            \/ rule.operator = "after" /\ DateLeq(ArticleDate(p), rule.num)
            \/ rule.operator = "before" /\ DateGeq(ArticleDate(p), rule.num)
      [] rule.type = "score" ->
            \/ rule.operator = "gt" /\ Score(p) <= rule.num
            \/ rule.operator = "lt" /\ Score(p) >= rule.num
      [] OTHER -> FALSE

\* The loop stopped after its first iteration: only rule i decides.
FiltersRejectFirstOnly(filters, i, p) ==
    i <= Len(filters) /\ Rejects(filters[i], p)

\* The loop at lines 432-460 from rule i on: TRUE when some rule rejects.
RECURSIVE FiltersReject(_, _, _)
FiltersReject(filters, i, p) ==
    IF i > Len(filters) THEN FALSE
    ELSE IF Rejects(filters[i], p) THEN TRUE
    ELSE FiltersReject(filters, i + 1, p)

\* Lines 425-463.
executeFilterNode(node, context) ==
    IF FiltersReject(node.config.filters, 1, Props(context.data))
    THEN ResNull
    ELSE Returned(context.data)

\* PublishStatus with the flag ignored.
PublishStatusAlwaysDraft(node) == "draft"

\* status: node.config.autoPublish ? 'published' : 'draft' (line 495).
PublishStatus(node) == IF node.config.autoPublish THEN "published" ELSE "draft"

\* Lines 465-517.
executePublisherNode(node, context, resp) ==
    IF resp.failed THEN ResThrow
    ELSE ResSingle(Obj(Merge(Props(context.data),
            [published_article |-> resp.data,
             execution_context |-> context.executionId])))

\* Lines 141-176: dispatch on node.type.
executeNode(node, context, resp) ==
    CASE node.type = "trigger" -> executeTriggerNode(node, context)
      [] node.type = "news-discovery" -> executeNewsDiscoveryNode(node, context, resp)
      [] node.type = "rss-aggregator" -> executeRssAggregatorNode(node, context, resp)
      [] node.type = "google-scholar-search" -> executeGoogleScholarNode(node, context, resp)
      [] node.type = "perplexity-research" -> executePerplexityResearchNode(node, context, resp)
      [] node.type = "multi-source-synthesizer" ->
            executeMultiSourceSynthesizerNode(node, context, resp)
      [] node.type = "ai-processor" -> executeAiProcessorNode(node, context, resp)
      [] node.type = "filter" -> executeFilterNode(node, context)
      [] node.type = "publisher" -> executePublisherNode(node, context, resp)
      [] OTHER -> Returned(context.data)

\* RemoteCalls with the call issued a second time.
RemoteCallsTwice(node, context) ==
    IF FunctionOf(node.type) = "none" THEN <<>>
    ELSE LET call == [fn |-> FunctionOf(node.type), node |-> node.id,
                      context |-> context.executionId,
                      status |-> IF node.type = "publisher"
                                 THEN PublishStatus(node) ELSE ""]
         IN  <<call, call>>

\* The remote calls executeNode(node, context) issues: none or one.
RemoteCalls(node, context) ==
    IF FunctionOf(node.type) = "none" THEN <<>>
    ELSE <<[fn |-> FunctionOf(node.type), node |-> node.id,
            context |-> context.executionId,
            status |-> IF node.type = "publisher" THEN PublishStatus(node) ELSE ""]>>

-----------------------------------------------------------------------------
(* Fan-out of one context through one node (executeWorkflow, lines 68-94). *)

\* MetaPut without the spread of context.metadata: only the new entry.
MetaPutOnlyNew(metadata, node, result) ==
    [k \in {MetaKey(node)} |-> result]

\* { ...context.metadata, [`${node.type}_${node.id}`]: result }
MetaPut(metadata, node, result) ==
    [k \in (DOMAIN metadata) \cup {MetaKey(node)} |->
        IF k = MetaKey(node) THEN result ELSE metadata[k]]

Context(id, data, metadata) ==
    [executionId |-> id, data |-> data, metadata |-> metadata]

\* The contexts pushed to newContexts for one handler result; a thrown error
\* is caught at line 91 and pushes nothing.
NextContextsAbortOnThrow(node, context, res, sofar) ==
    IF res.kind = "throw" THEN <<>>
    ELSE sofar \o [i \in DOMAIN res.items |->
            Context(IF res.kind = "array"
                    THEN ChildId(context.executionId, node.id, i - 1)
                    ELSE context.executionId,
                    res.items[i], MetaPut(context.metadata, node, res.items[i]))]

\* NextContexts with a single result pushed under a child id, as an array
\* of one element is.
NextContextsSingleAsArray(node, context, res, sofar) ==
    sofar \o [i \in DOMAIN res.items |->
                Context(ChildId(context.executionId, node.id, i - 1),
                        res.items[i],
                        MetaPut(context.metadata, node, res.items[i]))]

NextContexts(node, context, res, sofar) ==
    sofar \o
    CASE res.kind = "array" ->
            [i \in DOMAIN res.items |->
                Context(ChildId(context.executionId, node.id, i - 1),
                        res.items[i],
                        MetaPut(context.metadata, node, res.items[i]))]
      [] res.kind = "single" ->
            <<Context(context.executionId, res.items[1],
                      MetaPut(context.metadata, node, res.items[1]))>>
      [] OTHER -> <<>>

-----------------------------------------------------------------------------
(* Inputs of a run: the node list and the trigger payload.                 *)

Config(filters, autoPublish) == [filters |-> filters, autoPublish |-> autoPublish]
NoConfig == Config(<<>>, FALSE)

\* A WorkflowNode; its label is display text only and is left out.
Node(id, type, connected, config) ==
    [id |-> id, type |-> type, connected |-> connected, config |-> config]

\* The node kinds a workflow of the model is assembled from; "custom" is a
\* type executeNode does not know.
Palette ==
    << Node("t", "trigger", <<>>, NoConfig),
       Node("d", "news-discovery", <<>>, NoConfig),
       Node("f", "filter", <<>>, Config(<<KeywordRule(KeywordLaunch)>>, FALSE)),
       Node("p", "publisher", <<>>, NoConfig),
       Node("u", "custom", <<>>, NoConfig) >>

\* An id no node carries.
DanglingId == "x"

\* Strictly increasing selections of k palette entries.
Selections(k) ==
    {sel \in [1..k -> DOMAIN Palette] :
        \A i, j \in 1..k : i < j => sel[i] < sel[j]}

\* Every node list made of distinct palette entries, in palette order, in
\* which each node feeds at most one node (or a missing id).
Workflows ==
    UNION {
      UNION {
        LET targets == {<<>>} \cup {<<Palette[sel[i]].id>> : i \in 1..k}
                              \cup {<<DanglingId>>}
        IN  { [i \in 1..k |-> [Palette[sel[i]] EXCEPT !.connected = conn[i]]]
              : conn \in [1..k -> targets] }
        : sel \in Selections(k) }
      : k \in 0..MaxNodes }

\* The end-to-end workflow trigger -> discovery -> filter -> publisher.
E2ENodes ==
    << Node("t", "trigger", <<"d">>, NoConfig),
       Node("d", "news-discovery", <<"f">>, NoConfig),
       Node("f", "filter", <<"p">>, Config(<<KeywordRule(KeywordLaunch)>>, FALSE)),
       Node("p", "publisher", <<>>, NoConfig) >>

\* Two nodes whose type and id spell the same metadata key: a node of a
\* type executeNode does not know, then a publisher.
SameKeyNodes ==
    << Node("n", "publisher_a", <<>>, NoConfig),
       Node("a_n", "publisher", <<>>, NoConfig) >>

\* triggerData: left out, an object, or an array.
TriggerInputs ==
    { [given |-> FALSE, data |-> EmptyObj],
      [given |-> TRUE, data |-> LaunchArticle],
      [given |-> TRUE, data |-> Arr(<<LaunchArticle, WeatherArticle>>)] }

-----------------------------------------------------------------------------
(* The persisted execution record and the errors of a run.                 *)

NoRecord ==
    [status |-> "none", completed_at |-> FALSE, result |-> <<>>,
     error_message |-> <<>>]

NoError == [isError |-> FALSE, message |-> "none"]
\* The error object the insert resolves with.
InsertError == [isError |-> FALSE, message |-> "insert failed"]
\* new Error('Circular dependency detected in workflow'), line 527.
CircularError == [isError |-> TRUE, message |-> CircularMessage]
\* What an awaited store update may reject with: an Error or another value.
StoreErrors == { [isError |-> TRUE, message |-> "store unavailable"],
                 [isError |-> FALSE, message |-> "store rejected"] }

Pending == [kind |-> "pending", records |-> <<>>, error |-> NoError]
Raised(e) == [kind |-> "raised", records |-> <<>>, error |-> e]
\* A return value with one record per context of the final generation.
ReturnedPerContext ==
    [kind |-> "returned",
     records |-> [i \in DOMAIN executionContexts |->
                    [id |-> ExecutionId, status |-> "completed"]],
     error |-> NoError]

\* return [{ ...execution, status: 'completed' }], line 121.
ReturnedRecords ==
    [kind |-> "returned",
     records |-> <<[id |-> ExecutionId, status |-> "completed"]>>,
     error |-> NoError]

\* An awaited store call resolves without error, resolves with an error
\* ({ error } set, nothing written), or rejects (nothing written).
WriteOutcomes == {"ok", "error", "throw"}

-----------------------------------------------------------------------------
(* executeWorkflow (lines 22-138), one step per await.                     *)

Init ==
    /\ nodes \in Workflows \cup {E2ENodes, SameKeyNodes}
    /\ triggerData \in TriggerInputs
    /\ pc = "insert"
    /\ record = NoRecord
    /\ sortedIdx = <<>>
    /\ executionContexts = <<>>
    /\ newContexts = <<>>
    /\ ni = 0
    /\ ci = 0
    /\ caught = NoError
    /\ outcome = Pending
    /\ updates = <<>>
    /\ trace = <<>>
    /\ calls = <<>>

\* InsertRecord without the check of `error` at lines 41-44.
InsertRecordIgnoresError ==
    /\ pc = "insert"
    /\ \E ok \in BOOLEAN :
        /\ record' = IF ok THEN [NoRecord EXCEPT !.status = "running"] ELSE record
        /\ pc' = "sort"
    /\ UNCHANGED <<nodes, triggerData, sortedIdx, executionContexts, newContexts,
                   ni, ci, caught, outcome, updates, trace, calls>>

\* Lines 30-44: the insert of the 'running' row resolves to { data, error };
\* an error is thrown at once, before the try.
InsertRecord ==
    /\ pc = "insert"
    /\ \E ok \in BOOLEAN :
        IF ok
        THEN /\ record' = [NoRecord EXCEPT !.status = "running"]
             /\ pc' = "sort"
             /\ UNCHANGED outcome
        ELSE /\ outcome' = Raised(InsertError)
             /\ pc' = "done"
             /\ UNCHANGED record
    /\ UNCHANGED <<nodes, triggerData, sortedIdx, executionContexts, newContexts,
                   ni, ci, caught, updates, trace, calls>>

\* triggerData || {} (line 53).
RootData == IF triggerData.given THEN triggerData.data ELSE EmptyObj

\* SortNodes with the first node of the order queued once more at the end.
SortNodesRepeatsFirst ==
    /\ pc = "sort"
    /\ ~topologicalSort(nodes).err
    /\ LET sorted == topologicalSort(nodes).sorted
       IN  /\ sortedIdx' = IF sorted = <<>> THEN sorted ELSE Append(sorted, sorted[1])
           /\ pc' = IF sorted = <<>> THEN "complete" ELSE "loop"
    /\ executionContexts' = <<Context(ExecutionId, RootData, <<>>)>>
    /\ newContexts' = <<>>
    /\ ni' = 1
    /\ ci' = 1
    /\ UNCHANGED <<nodes, triggerData, record, caught, outcome, updates, trace, calls>>

\* Lines 48-55 when topologicalSort returns: the root context is created
\* and the node loop is entered (or skipped, for an empty list).
SortNodes ==
    /\ pc = "sort"
    /\ ~topologicalSort(nodes).err
    /\ sortedIdx' = topologicalSort(nodes).sorted
    /\ executionContexts' = <<Context(ExecutionId, RootData, <<>>)>>
    /\ newContexts' = <<>>
    /\ ni' = 1
    /\ ci' = 1
    /\ pc' = IF topologicalSort(nodes).sorted = <<>> THEN "complete" ELSE "loop"
    /\ UNCHANGED <<nodes, triggerData, record, caught, outcome, updates, trace, calls>>

\* SortThrows with topologicalSort called outside the try: the error
\* reaches the caller and the catch at 123 never runs.
SortThrowsOutsideTry ==
    /\ pc = "sort"
    /\ topologicalSort(nodes).err
    /\ caught' = CircularError
    /\ outcome' = Raised(CircularError)
    /\ pc' = "done"
    /\ UNCHANGED <<nodes, triggerData, record, sortedIdx, executionContexts,
                   newContexts, ni, ci, updates, trace, calls>>

\* Line 48 when topologicalSort throws: control passes to the catch at 123.
SortThrows ==
    /\ pc = "sort"
    /\ topologicalSort(nodes).err
    /\ caught' = CircularError
    /\ pc' = "catch"
    /\ UNCHANGED <<nodes, triggerData, record, sortedIdx, executionContexts,
                   newContexts, ni, ci, outcome, updates, trace, calls>>

\* A handler error that leaves the try at lines 68-94 uncaught.
EscapesOnThrow(res) == res.kind = "throw"

\* Whether a handler result passes the catch at lines 91-94 and reaches the
\* outer catch: never, every error of executeNode is caught per context.
Escapes(res) == FALSE

\* The error a failed remote call throws out of a handler.
HandlerError == [isError |-> FALSE, message |-> "remote call failed"]

\* Lines 64-105 for one context: await executeNode, push the new contexts;
\* after the last context of the generation, replace the generation and
\* move to the next node, or leave the loop (no node left, or the break at
\* line 103 on an empty generation).
ProcessContext ==
    /\ pc = "loop"
    /\ LET node == nodes[sortedIdx[ni]]
           context == executionContexts[ci]
       IN  \E resp \in Responses(node.type) :
             LET res == executeNode(node, context, resp)
                 pushed == NextContexts(node, context, res, newContexts)
             IN  /\ trace' = Append(trace,
                        [node |-> sortedIdx[ni], context |-> context.executionId,
                         result |-> res.kind, count |-> Len(res.items),
                         items |-> res.items])
                 /\ calls' = calls \o RemoteCalls(node, context)
                 /\ IF Escapes(res)
                    THEN /\ caught' = HandlerError
                         /\ pc' = "catch"
                         /\ UNCHANGED <<executionContexts, newContexts, ni, ci>>
                    ELSE /\ UNCHANGED caught
                         /\ IF ci < Len(executionContexts)
                            THEN /\ newContexts' = pushed
                                 /\ ci' = ci + 1
                                 /\ UNCHANGED <<executionContexts, ni, pc>>
                            ELSE /\ executionContexts' = pushed
                                 /\ newContexts' = <<>>
                                 /\ ci' = 1
                                 /\ IF pushed = <<>> \/ ni = Len(sortedIdx)
                                    THEN pc' = "complete" /\ UNCHANGED ni
                                    ELSE pc' = "loop" /\ ni' = ni + 1
    /\ UNCHANGED <<nodes, triggerData, record, sortedIdx, outcome, updates>>

\* ResultSummary with every entry of final_results taken from the first
\* context.
ResultSummaryOfFirst(contexts) ==
    [contexts |-> Len(contexts),
     final_results |-> [i \in DOMAIN contexts |-> contexts[1].data]]

\* result: { contexts, final_results } (lines 113-116).
ResultSummary(contexts) ==
    [contexts |-> Len(contexts),
     final_results |-> [i \in DOMAIN contexts |-> contexts[i].data]]

\* Written without completed_at.
WrittenNoCompletedAt(status, result, message) ==
    [status |-> status, completed_at |-> FALSE, result |-> result,
     error_message |-> message]

\* The update written: status, completed_at, and the result or the message.
Written(status, result, message) ==
    [status |-> status, completed_at |-> TRUE, result |-> result,
     error_message |-> message]

\* UpdateCompleted recording a run whose final generation is empty as failed.
UpdateCompletedFailsWhenEmpty ==
    /\ pc = "complete"
    /\ \E w \in WriteOutcomes :
        LET status == IF executionContexts = <<>> THEN "failed" ELSE "completed"
            row == Written(status, <<ResultSummary(executionContexts)>>, <<>>)
        IN  /\ updates' = Append(updates, [status |-> status, outcome |-> w])
            /\ record' = IF w = "ok" THEN row ELSE record
            /\ IF w = "throw"
               THEN /\ \E e \in StoreErrors : caught' = e
                    /\ pc' = "catch"
                    /\ UNCHANGED outcome
               ELSE /\ outcome' = ReturnedRecords
                    /\ pc' = "done"
                    /\ UNCHANGED caught
    /\ UNCHANGED <<nodes, triggerData, sortedIdx, executionContexts, newContexts,
                   ni, ci, trace, calls>>

\* UpdateCompleted with the update's `error` inspected and thrown, as the
\* insert's is at lines 41-44.
UpdateCompletedChecksError ==
    /\ pc = "complete"
    /\ \E w \in WriteOutcomes :
        LET row == Written("completed", <<ResultSummary(executionContexts)>>, <<>>)
        IN  /\ updates' = Append(updates, [status |-> "completed", outcome |-> w])
            /\ record' = IF w = "ok" THEN row ELSE record
            /\ IF w # "ok"
               THEN /\ \E e \in StoreErrors : caught' = e
                    /\ pc' = "catch"
                    /\ UNCHANGED outcome
               ELSE /\ outcome' = ReturnedRecords
                    /\ pc' = "done"
                    /\ UNCHANGED caught
    /\ UNCHANGED <<nodes, triggerData, sortedIdx, executionContexts, newContexts,
                   ni, ci, trace, calls>>

\* Lines 108-121: the 'completed' update, its result not inspected, then the
\* return; a rejection passes to the catch at 123.
UpdateCompleted ==
    /\ pc = "complete"
    /\ \E w \in WriteOutcomes :
        LET row == Written("completed", <<ResultSummary(executionContexts)>>, <<>>)
        IN  /\ updates' = Append(updates, [status |-> "completed", outcome |-> w])
            /\ record' = IF w = "ok" THEN row ELSE record
            /\ IF w = "throw"
               THEN /\ \E e \in StoreErrors : caught' = e
                    /\ pc' = "catch"
                    /\ UNCHANGED outcome
               ELSE /\ outcome' = ReturnedRecords
                    /\ pc' = "done"
                    /\ UNCHANGED caught
    /\ UNCHANGED <<nodes, triggerData, sortedIdx, executionContexts, newContexts,
                   ni, ci, trace, calls>>

\* error instanceof Error ? error.message : 'Unknown error' (line 132).
ErrorMessage(e) == IF e.isError THEN e.message ELSE "Unknown error"

\* UpdateFailed retrying the 'failed' update for as long as the store
\* rejects it.
UpdateFailedRetries ==
    /\ pc = "catch"
    /\ \E w \in WriteOutcomes :
        LET row == Written("failed", <<>>, <<ErrorMessage(caught)>>)
        IN  IF w = "throw"
            THEN /\ \E e \in StoreErrors : caught' = e
                 /\ UNCHANGED <<pc, record, outcome, updates>>
            ELSE /\ updates' = Append(updates, [status |-> "failed", outcome |-> w])
                 /\ record' = IF w = "ok" THEN row ELSE record
                 /\ outcome' = Raised(caught)
                 /\ pc' = "done"
                 /\ UNCHANGED caught
    /\ UNCHANGED <<nodes, triggerData, sortedIdx, executionContexts, newContexts,
                   ni, ci, trace, calls>>

\* Lines 123-137: the 'failed' update, then the caught error is re-thrown;
\* a rejection of this update replaces the error the caller sees.
UpdateFailed ==
    /\ pc = "catch"
    /\ \E w \in WriteOutcomes :
        LET row == Written("failed", <<>>, <<ErrorMessage(caught)>>)
        IN  /\ updates' = Append(updates, [status |-> "failed", outcome |-> w])
            /\ record' = IF w = "ok" THEN row ELSE record
            /\ IF w = "throw"
               THEN \E e \in StoreErrors : outcome' = Raised(e)
               ELSE outcome' = Raised(caught)
            /\ pc' = "done"
    /\ UNCHANGED <<nodes, triggerData, sortedIdx, executionContexts, newContexts,
                   ni, ci, caught, trace, calls>>

Next ==
    \/ InsertRecord
    \/ SortNodes
    \/ SortThrows
    \/ ProcessContext
    \/ UpdateCompleted
    \/ UpdateFailed

Spec == Init /\ [][Next]_vars

\* WF_vars(SortNodes \/ SortThrows) with its ENABLED written out: a call of
\* topologicalSort is pending exactly when pc = "sort", and it returns or
\* throws.
SortFair == []<>(pc # "sort") \/ []<><<SortNodes \/ SortThrows>>_vars

\* Every await returns and the code between two awaits runs to its end: a
\* run that can take a step eventually takes it.
FairSpec ==
    /\ Spec
    /\ WF_vars(InsertRecord)
    /\ SortFair
    /\ WF_vars(ProcessContext)
    /\ WF_vars(UpdateCompleted)
    /\ WF_vars(UpdateFailed)

-----------------------------------------------------------------------------
(* topologicalSort on its own: any small node list, with repeated ids and  *)
(* edges to missing ids.                                                   *)

SortIds == {"a", "b", "c"}

SortNodeShapes ==
    {Node(id, type, conn, NoConfig) :
        id \in SortIds, type \in {"trigger", "filter"},
        conn \in SeqsUpTo(SortIds, MaxConnected)}

SortInputs == SeqsUpTo(SortNodeShapes, MaxSortNodes)

SortInit ==
    /\ nodes \in SortInputs
    /\ triggerData = [given |-> FALSE, data |-> EmptyObj]
    /\ pc = "sort"
    /\ record = NoRecord
    /\ sortedIdx = <<>>
    /\ executionContexts = <<>>
    /\ newContexts = <<>>
    /\ ni = 0
    /\ ci = 0
    /\ caught = NoError
    /\ outcome = Pending
    /\ updates = <<>>
    /\ trace = <<>>
    /\ calls = <<>>

\* One call of topologicalSort(nodes): it returns the order or throws.
SortReturns ==
    /\ pc = "sort"
    /\ ~topologicalSort(nodes).err
    /\ sortedIdx' = topologicalSort(nodes).sorted
    /\ pc' = "sorted"
    /\ UNCHANGED <<nodes, triggerData, record, executionContexts, newContexts,
                   ni, ci, caught, outcome, updates, trace, calls>>

SortFails ==
    /\ pc = "sort"
    /\ topologicalSort(nodes).err
    /\ caught' = CircularError
    /\ pc' = "threw"
    /\ UNCHANGED <<nodes, triggerData, record, sortedIdx, executionContexts,
                   newContexts, ni, ci, outcome, updates, trace, calls>>

SortNext == SortReturns \/ SortFails

SortSpec == SortInit /\ [][SortNext]_vars

-----------------------------------------------------------------------------
(* executeWorkflow on a single filter node: every short rule list against  *)
(* payloads that carry or lack each field the rules read.                  *)

TextAiLaw == <<"A","i"," ","l","a","w">>
TextNewAi == <<"n","e","w"," ","A","I">>
TextRun == <<"R","u","n">>
KeywordAi == <<"a","I">>

\* The rules a filter is configured from: a keyword, dates and scores
\* around the values the payloads carry, operators and a rule type the
\* switch does not know.
FilterRules ==
    {KeywordRule(KeywordAi), Rule("length", "gt", <<>>, 0)}
    \cup {Rule("date", op, <<>>, 10) : op \in {"after", "before", "on"}}
    \cup {Rule("score", op, <<>>, t) : op \in {"gt", "lt", "eq"}, t \in {0, 5}}

\* The fields a payload may carry; <<>> stands for the field left out.
TitleChoices == {<<>>, [title |-> TextAiLaw], [title |-> TextRun]}
ContentChoices == {<<>>, [content |-> TextNewAi], [content |-> TextRun]}
ScoreChoices == {<<>>} \cup {[priority_score |-> n] : n \in {4, 5, 6}}
DateChoices ==
    {<<>>, [published_date |-> 9], [publishedAt |-> 9, published_date |-> 11]}
    \cup {[publishedAt |-> n] : n \in {9, 10, 11}}

FilterPayloads ==
    {Obj(Merge(Merge(t, c), Merge(sc, d))) :
        t \in TitleChoices, c \in ContentChoices,
        sc \in ScoreChoices, d \in DateChoices}

\* A filter node on its own, and one that names itself as its successor.
FilterWorkflows ==
    {<<Node("f", "filter", <<>>, Config(rules, FALSE))>> :
        rules \in SeqsUpTo(FilterRules, MaxRules)}
    \cup {<<Node("f", "filter", <<"f">>, NoConfig)>>}

FilterInit ==
    /\ nodes \in FilterWorkflows
    /\ triggerData \in {[given |-> TRUE, data |-> p] : p \in FilterPayloads}
    /\ pc = "insert"
    /\ record = NoRecord
    /\ sortedIdx = <<>>
    /\ executionContexts = <<>>
    /\ newContexts = <<>>
    /\ ni = 0
    /\ ci = 0
    /\ caught = NoError
    /\ outcome = Pending
    /\ updates = <<>>
    /\ trace = <<>>
    /\ calls = <<>>

FilterSpec == FilterInit /\ [][Next]_vars

-----------------------------------------------------------------------------
(* executeWorkflow on the nodes that call a collaborator: at most one      *)
(* discovery node, then research, synthesis, AI, publisher and local       *)
(* nodes, none connected, so that they run in input order.                 *)

SourceNodes ==
    { Node("d", "news-discovery", <<>>, NoConfig),
      Node("r", "rss-aggregator", <<>>, NoConfig),
      Node("g", "google-scholar-search", <<>>, NoConfig) }

SinkNodes ==
    { Node("q", "perplexity-research", <<>>, NoConfig),
      Node("s", "multi-source-synthesizer", <<>>, NoConfig),
      Node("a", "ai-processor", <<>>, NoConfig),
      Node("p", "publisher", <<>>, NoConfig),
      Node("p", "publisher", <<>>, Config(<<>>, TRUE)) }

\* Nodes that call no collaborator: a trigger, a filter, an unknown type.
LocalNodes ==
    { Node("t", "trigger", <<>>, NoConfig),
      Node("f", "filter", <<>>, Config(<<KeywordRule(KeywordLaunch)>>, FALSE)),
      Node("u", "custom", <<>>, NoConfig) }

\* Sequences of sink and local nodes with pairwise distinct ids.
SinkChains ==
    {c \in SeqsUpTo(SinkNodes \cup LocalNodes, MaxSinks) :
        \A i, j \in DOMAIN c : c[i].id = c[j].id => i = j}

RemoteWorkflows ==
    {c \in SinkChains : c # <<>>}
    \cup {<<src>> \o c : src \in SourceNodes, c \in SinkChains}
    \cup {<<Node("q", "perplexity-research", <<"q">>, NoConfig)>>}

RemoteInit ==
    /\ nodes \in RemoteWorkflows
    /\ triggerData \in TriggerInputs
    /\ pc = "insert"
    /\ record = NoRecord
    /\ sortedIdx = <<>>
    /\ executionContexts = <<>>
    /\ newContexts = <<>>
    /\ ni = 0
    /\ ci = 0
    /\ caught = NoError
    /\ outcome = Pending
    /\ updates = <<>>
    /\ trace = <<>>
    /\ calls = <<>>

RemoteSpec == RemoteInit /\ [][Next]_vars

-----------------------------------------------------------------------------
(* executeWorkflow on a single filter node with several rules: every rule  *)
(* list, in every order, over rules that reject, rules that pass, a rule   *)
(* type and operators the switch does not know.                            *)

OrderRules ==
    { KeywordRule(KeywordAi), Rule("length", "gt", <<>>, 0),
      Rule("date", "after", <<>>, 10), Rule("date", "on", <<>>, 10),
      Rule("score", "gt", <<>>, 5), Rule("score", "eq", <<>>, 5) }

OrderPayloads ==
    {Obj(Merge(t, Merge(sc, d))) :
        t \in TitleChoices,
        sc \in {<<>>, [priority_score |-> 6]},
        d \in {<<>>, [publishedAt |-> 9], [publishedAt |-> 11]}}

OrderWorkflows ==
    {<<Node("f", "filter", <<>>, Config(rules, FALSE))>> :
        rules \in SeqsUpTo(OrderRules, MaxOrderedRules)}
    \cup {<<Node("f", "filter", <<"f">>, NoConfig)>>}

OrderInit ==
    /\ nodes \in OrderWorkflows
    /\ triggerData \in {[given |-> TRUE, data |-> p] : p \in OrderPayloads}
    /\ pc = "insert"
    /\ record = NoRecord
    /\ sortedIdx = <<>>
    /\ executionContexts = <<>>
    /\ newContexts = <<>>
    /\ ni = 0
    /\ ci = 0
    /\ caught = NoError
    /\ outcome = Pending
    /\ updates = <<>>
    /\ trace = <<>>
    /\ calls = <<>>

OrderSpec == OrderInit /\ [][Next]_vars

-----------------------------------------------------------------------------
(* Graph notions used to state the claims, defined on the node list alone  *)
(* (not through topologicalSort).                                          *)

\* u -> v: v's id is listed in u.connected.
Edge(ns, u, v) == ns[v].id \in Range(ns[u].connected)

RECURSIVE ReachSet(_, _)
ReachSet(ns, S) ==
    LET T == S \cup {v \in DOMAIN ns : \E u \in S : Edge(ns, u, v)}
    IN  IF T = S THEN S ELSE ReachSet(ns, T)

\* The nodes reachable from u through one or more edges.
Descendants(ns, u) == ReachSet(ns, {v \in DOMAIN ns : Edge(ns, u, v)})

OnCycle(ns, u) == u \in Descendants(ns, u)
Acyclic(ns) == \A u \in DOMAIN ns : ~OnCycle(ns, u)
UniqueIds(ns) == \A i, j \in DOMAIN ns : ns[i].id = ns[j].id => i = j
EdgesExist(ns) ==
    \A u \in DOMAIN ns : \A k \in DOMAIN ns[u].connected :
        \E v \in DOMAIN ns : ns[v].id = ns[u].connected[k]

CycleFromTrigger(ns) ==
    \E t \in DOMAIN ns :
        /\ ns[t].type = "trigger"
        /\ \E v \in {t} \cup Descendants(ns, t) : OnCycle(ns, v)

\* Positions of x in the sequence s.
PositionsOf(s, x) == {i \in DOMAIN s : s[i] = x}

IsPrefix(s, t) == Len(s) <= Len(t) /\ SubSeq(t, 1, Len(s)) = s

\* The initial insert returned an error: the run ended with no row created.
InsertFailed == pc = "done" /\ record.status = "none"

PublishCalls == {i \in DOMAIN calls : calls[i].fn = "create-article-from-ai"}

\* Trace entries of the node at position n of the node list.
EntriesOf(n) == {i \in DOMAIN trace : trace[i].node = n}

-----------------------------------------------------------------------------
(* Claims.                                                                 *)

\* C1: for the end-to-end workflow t -> d -> f("launch") -> p, with a
\* discovery collaborator answering the two items "Product launch today" and
\* "Weather update" and working store and publish collaborators, the run
\* completes with exactly one final payload, the launch article, and exactly
\* one publish call.
C1_EndToEnd ==
    ( /\ nodes = E2ENodes
      /\ pc = "done"
      /\ outcome.kind = "returned"
      /\ \A i \in DOMAIN updates : updates[i].outcome = "ok"
      /\ \A i \in DOMAIN trace :
            /\ trace[i].result # "throw"
            /\ nodes[trace[i].node].type = "news-discovery"
                  => trace[i].result = "array" /\ trace[i].count = 2 )
    => /\ Len(executionContexts) = 1
       /\ "title" \in DOMAIN Props(executionContexts[1].data)
       /\ Props(executionContexts[1].data)["title"] = TitleLaunch
       /\ Cardinality(PublishCalls) = 1

\* C2: for an acyclic node list with unique ids whose edges all point to
\* existing nodes, topologicalSort returns (does not throw), its result holds
\* every input node exactly once, and for every edge u -> v the node v comes
\* at an earlier position than u.
C2_SortOrder ==
    ( /\ pc # "sort"
      /\ Acyclic(nodes) /\ UniqueIds(nodes) /\ EdgesExist(nodes) )
    => /\ pc = "sorted"
       /\ Len(sortedIdx) = Len(nodes)
       /\ \A n \in DOMAIN nodes : Cardinality(PositionsOf(sortedIdx, n)) = 1
       /\ \A u, v \in DOMAIN nodes :
            Edge(nodes, u, v) =>
                \A a \in PositionsOf(sortedIdx, u), b \in PositionsOf(sortedIdx, v) :
                    b < a

C2_Witness ==
    /\ pc = "sorted"
    /\ Len(nodes) = 2
    /\ UniqueIds(nodes)
    /\ Edge(nodes, 1, 2)
    /\ ~Edge(nodes, 2, 1) /\ ~Edge(nodes, 1, 1) /\ ~Edge(nodes, 2, 2)
    /\ EdgesExist(nodes)
    /\ sortedIdx = <<2, 1>>

\* C3: in the sequence of nodes a run executes for an acyclic node list, a
\* trigger node is executed before every node reachable from it: no node
\* reachable from a trigger is executed earlier than that trigger.
C3_TriggerFirst ==
    Acyclic(nodes) =>
        \A i, j \in DOMAIN trace :
            ( /\ nodes[trace[j].node].type = "trigger"
              /\ trace[i].node \in Descendants(nodes, trace[j].node) )
            => j < i

\* C4: when the node list has a cycle reachable from a trigger node,
\* topologicalSort throws the circular-dependency error, and the run creates
\* no execution context and invokes no node handler (nor any remote call).
C4_CycleAborts ==
    ( /\ CycleFromTrigger(nodes)
      /\ pc \notin {"insert", "sort"}
      /\ ~InsertFailed )
    => /\ caught = CircularError
       /\ sortedIdx = <<>>
       /\ executionContexts = <<>>
       /\ newContexts = <<>>
       /\ trace = <<>>
       /\ calls = <<>>

C4_Witness ==
    /\ pc = "done"
    /\ CycleFromTrigger(nodes)
    /\ Len(nodes) = 3
    /\ ~OnCycle(nodes, 1)
    /\ nodes[1].type = "trigger"
    /\ caught = CircularError
    /\ trace = <<>>

\* C5 as stated: when topologicalSort fails with the cycle error inside
\* executeWorkflow, no update to status 'failed' is issued for the run.
C5_CycleNotMarkedFailed ==
    caught = CircularError =>
        \A i \in DOMAIN updates : updates[i].status # "failed"

\* C5 as amended: when topologicalSort fails with the cycle error inside
\* executeWorkflow, the run issues exactly one store update, to status
\* 'failed' with the cycle error's message, and raises the error to the
\* caller; when that update is written the persisted record is failed.
C5_CycleMarkedFailed ==
    (caught = CircularError /\ pc = "done") =>
        /\ Len(updates) = 1
        /\ updates[1].status = "failed"
        /\ outcome.kind = "raised"
        /\ updates[1].outcome # "throw" => outcome.error = CircularError
        /\ updates[1].outcome = "ok" =>
              /\ record.status = "failed"
              /\ record.completed_at
              /\ record.error_message = <<CircularMessage>>

C5_Witness ==
    /\ pc = "done"
    /\ caught = CircularError
    /\ record.status = "failed"
    /\ record.error_message = <<CircularMessage>>
    /\ outcome = Raised(CircularError)

\* C6: the persisted record only ever changes from running to completed or
\* from running to failed (after its creation as running), so it reaches a
\* terminal status at most once and never changes afterwards; completed_at
\* is set whenever the status is terminal and never while it is running.
\* (A store update that rejects has written nothing.)
C6_RecordLifecycle ==
    [][ /\ record' # record =>
            \/ record.status = "none" /\ record'.status = "running"
            \/ record.status = "running" /\ record'.status \in {"completed", "failed"}
        /\ record'.status = "running" => ~record'.completed_at
        /\ record'.status \in {"completed", "failed"} => record'.completed_at
      ]_vars

C6_Witness ==
    /\ pc = "done"
    /\ record.status = "failed"
    /\ record.completed_at
    /\ Len(updates) = 2
    /\ updates[1].status = "completed"

\* Some handler raised an error during the run.
SomeHandlerThrew == \E i \in DOMAIN trace : trace[i].result = "throw"

\* C7: when the handler raises an error for one context, the generation
\* being built is left exactly as the other contexts made it (every context
\* pushed so far is kept, the failing context adds nothing), the run moves on
\* to the next node when contexts remain, and the run ends completed, not
\* failed: the update it issues is the 'completed' one, and a 'failed' update
\* follows only when the store rejected that update.
C7_PartialFailureIsolation ==
    /\ [] ( (pc = "done" /\ SomeHandlerThrew) =>
              /\ updates[1].status = "completed"
              /\ updates[1].outcome # "throw" =>
                    (Len(updates) = 1 /\ outcome = ReturnedRecords)
              /\ updates[1].outcome = "ok" => record.status = "completed" )
    /\ [][ (trace' # trace) =>
          LET e == trace'[Len(trace')]
              last == ci = Len(executionContexts)
              built == IF last THEN executionContexts' ELSE newContexts'
          IN  /\ IsPrefix(newContexts, built)
              /\ Len(built) = Len(newContexts) + (IF e.result = "throw" THEN 0 ELSE e.count)
              /\ e.result = "throw" =>
                    /\ built = newContexts
                    /\ pc' \in {"loop", "complete"}
                    /\ caught' = NoError
                    /\ (last /\ built # <<>> /\ ni < Len(sortedIdx)) =>
                            (pc' = "loop" /\ ni' = ni + 1 /\ ci' = 1)
                    /\ (~last) => (pc' = "loop" /\ ni' = ni /\ ci' = ci + 1)
        ]_vars

C7_Witness ==
    /\ pc = "done"
    /\ record.status = "completed"
    /\ Len(executionContexts) = 1
    /\ \E i, j, k \in DOMAIN trace :
          /\ trace[i].node = trace[j].node
          /\ trace[i].result = "throw"
          /\ trace[j].result = "single"
          /\ i < j
          /\ j < k

\* C8: whatever errors the node handlers raise, also when every context of
\* a node fails, a run whose node list sorts and whose store calls do not
\* reject returns the record list to its caller and issues the 'completed'
\* update and no 'failed' update.
C8_NodeErrorsNeverFail ==
    ( /\ pc = "done"
      /\ ~InsertFailed
      /\ caught # CircularError
      /\ \A i \in DOMAIN updates : updates[i].outcome # "throw" )
    => /\ outcome = ReturnedRecords
       /\ Len(updates) = 1
       /\ updates[1].status = "completed"
       /\ updates[1].outcome = "ok" => record.status = "completed"

C8_Witness ==
    /\ pc = "done"
    /\ outcome = ReturnedRecords
    /\ record.status = "completed"
    /\ executionContexts = <<>>
    /\ Len(trace) >= 2
    /\ trace[Len(trace)].result = "throw"
    /\ trace[Len(trace) - 1].result = "throw"
    /\ trace[Len(trace)].node = trace[Len(trace) - 1].node

\* C9: if the store update that records 'completed' fails, the run is
\* marked failed (a 'failed' update follows) and the error is raised, so the
\* caller never receives a completed record while the persisted record is
\* not completed.
C9_CompletedWriteFailureRaises ==
    /\ ( /\ pc = "done"
         /\ Len(updates) >= 1
         /\ updates[1].status = "completed"
         /\ updates[1].outcome # "ok" )
       => /\ outcome.kind = "raised"
          /\ Len(updates) = 2
          /\ updates[2].status = "failed"
    /\ outcome.kind = "returned" => record.status = "completed"

\* C10: if the initial insert returns an error, the run raises that error
\* at once: no node order is computed, no context is created, no handler or
\* remote function is invoked and no update is issued.
C10_InsertFailureAborts ==
    (pc # "insert" /\ record.status = "none") =>
        /\ pc = "done"
        /\ outcome = Raised(InsertError)
        /\ sortedIdx = <<>>
        /\ executionContexts = <<>>
        /\ newContexts = <<>>
        /\ trace = <<>>
        /\ calls = <<>>
        /\ updates = <<>>
        /\ caught = NoError

C10_Witness ==
    /\ pc = "done"
    /\ record.status = "none"
    /\ outcome = Raised(InsertError)
    /\ Len(nodes) = 3
    /\ Acyclic(nodes)

\* C11: in every run whose initial insert succeeds the record is written
\* exactly twice, the insert and then exactly one terminal update: no run
\* issues two updates and no run ends with zero updates.
C11_ExactlyOneUpdate ==
    record.status # "none" =>
        /\ Len(updates) <= 1
        /\ pc = "done" => Len(updates) = 1

\* C11 as the code has it: a run whose insert succeeded ends with one or
\* two updates issued; the second one is the 'failed' update of the catch
\* and follows only a 'completed' update that the store rejected; at most
\* one update is written to the record.
C11_OneOrTwoUpdates ==
    record.status # "none" =>
        /\ Len(updates) <= 2
        /\ pc = "done" => Len(updates) >= 1
        /\ \A i \in DOMAIN updates : updates[i].status \in {"completed", "failed"}
        /\ Len(updates) = 2 =>
              /\ updates[1] = [status |-> "completed", outcome |-> "throw"]
              /\ updates[2].status = "failed"
        /\ (pc = "done" /\ Len(updates) = 1) =>
              updates[1] # [status |-> "completed", outcome |-> "throw"]
        /\ Cardinality({i \in DOMAIN updates : updates[i].outcome = "ok"}) <= 1

C11_Witness ==
    /\ pc = "done"
    /\ Len(updates) = 2
    /\ updates[1] = [status |-> "completed", outcome |-> "throw"]
    /\ updates[2] = [status |-> "failed", outcome |-> "ok"]
    /\ record.status = "failed"
    /\ trace # <<>>

\* The last handler invocation of the history.
LastEntry(t) == t[Len(t)]

\* The list a step of the node loop has pushed to: newContexts, which
\* becomes the generation after the last context of a node.
Built(cs, i, nextNew, nextGen) == IF i < Len(cs) THEN nextNew ELSE nextGen

\* C12: when a handler returns a list of k >= 0 items for a context, the
\* list under construction grows by exactly k contexts, the i-th of them
\* with executionId parentId-nodeId-(i-1) and the i-th item as data, the
\* ids pairwise distinct; a discovery node hands on its response's items
\* one for one; for k = 0 nothing is added and no error is recorded.
C12_ArrayFanOut ==
    [][ (pc = "loop" /\ trace' # trace /\ LastEntry(trace').result = "array") =>
          LET e == LastEntry(trace')
              k == Len(e.items)
              parent == executionContexts[ci]
              node == nodes[sortedIdx[ni]]
              built == Built(executionContexts, ci, newContexts', executionContexts')
              base == Len(newContexts)
          IN  /\ Len(built) = base + k
              /\ SubSeq(built, 1, base) = newContexts
              /\ \A i \in 1..k :
                    /\ built[base + i].executionId =
                          parent.executionId \o <<"-", node.id, "-", Digits[i]>>
                    /\ built[base + i].data = e.items[i]
              /\ \A i, j \in 1..k :
                    built[base + i].executionId = built[base + j].executionId => i = j
              /\ node.type = "news-discovery" =>
                    \A i \in 1..k :
                        Props(e.items[i])["title"] = Props(Feed(k)[i])["title"]
              /\ caught' = NoError
              /\ pc' # "catch"
              /\ updates' = updates
      ]_vars

\* A discovery node has fanned a context out into two, and another context
\* of some node has returned an empty list.
C12_Witness ==
    /\ \E i \in DOMAIN trace :
          /\ trace[i].result = "array"
          /\ trace[i].count = 2
          /\ nodes[trace[i].node].type = "news-discovery"
          /\ \E a, b \in 1..(Len(executionContexts) + Len(newContexts)) :
                LET all == executionContexts \o newContexts
                    id == trace[i].context \o <<"-", nodes[trace[i].node].id, "-">>
                IN  /\ all[a].executionId = id \o <<"0">>
                    /\ all[b].executionId = id \o <<"1">>
    /\ \E i \in DOMAIN trace : trace[i].result = "array" /\ trace[i].count = 0

\* A node has been processed and left no context.
EmptyGeneration == trace # <<>> /\ executionContexts = <<>>

\* C13: once the generation is empty after a node, the node loop is over:
\* no further handler or remote call happens, the next store call is the
\* 'completed' update, whose result is a context count of 0 and no final
\* results, and the run returns; a 'failed' update follows only when the
\* store rejects that update.
C13_EmptyGenerationCompletes ==
    /\ [](EmptyGeneration =>
            /\ pc \in {"complete", "catch", "done"}
            /\ pc = "complete" => updates = <<>>
            /\ pc = "catch" =>
                  updates = <<[status |-> "completed", outcome |-> "throw"]>>
            /\ pc = "done" =>
                  /\ updates[1].status = "completed"
                  /\ updates[1].outcome # "throw" =>
                        /\ Len(updates) = 1
                        /\ outcome.kind = "returned"
                        /\ record.status # "failed"
                  /\ updates[1].outcome = "ok" =>
                        /\ record.status = "completed"
                        /\ record.result =
                              <<[contexts |-> 0, final_results |-> <<>>]>>)
    /\ [][EmptyGeneration => (trace' = trace /\ calls' = calls)]_vars

\* A run ended completed on an empty generation with nodes left unvisited.
C13_Witness ==
    /\ pc = "done"
    /\ EmptyGeneration
    /\ ni < Len(sortedIdx)
    /\ record.status = "completed"
    /\ record.result = <<[contexts |-> 0, final_results |-> <<>>]>>
    /\ outcome.kind = "returned"

\* The single filter rule of a one-node run, once its handler has run.
FilterRan(type) ==
    /\ trace # <<>>
    /\ nodes[1].type = "filter"
    /\ Len(nodes[1].config.filters) = 1
    /\ nodes[1].config.filters[1].type = type
TheRule == nodes[1].config.filters[1]
RootFields == triggerData.data.fields

\* The root context came through the filter with its id and its data.
Kept ==
    /\ trace[1].result = "single"
    /\ Len(executionContexts) = 1
    /\ executionContexts[1].executionId = ExecutionId
    /\ executionContexts[1].data = triggerData.data
\* The root context was filtered out: null returned, nothing pushed.
Dropped == trace[1].result = "null" /\ executionContexts = <<>>

\* Letters equal up to case.
SameLetter(a, b) ==
    a = b \/ \E n \in DOMAIN UpperChars : {a, b} = {UpperChars[n], LowerChars[n]}
ContainsIgnoringCase(text, v) ==
    \E i \in 0..(Len(text) - Len(v)) :
        \A j \in 1..Len(v) : SameLetter(text[i + j], v[j])
Lacks(p, k, v) == k \notin DOMAIN p \/ ~ContainsIgnoringCase(p[k], v)

\* C14: a filter node with a single keyword rule drops the context when its
\* title and its content both lack the rule's value, compared without
\* regard to case and a missing field counting as lacking it, and passes
\* every other context through with the same executionId and data.
C14_KeywordFilter ==
    FilterRan("keyword") =>
        IF Lacks(RootFields, "title", TheRule.text)
           /\ Lacks(RootFields, "content", TheRule.text)
        THEN Dropped
        ELSE Kept

\* A context kept on a title that matches only when case is ignored.
C14_Witness ==
    /\ FilterRan("keyword")
    /\ Kept
    /\ "title" \in DOMAIN RootFields
    /\ RootFields["title"] = TextAiLaw
    /\ ~includes(RootFields["title"], TheRule.text)
    /\ "content" \notin DOMAIN RootFields
    /\ pc = "done"

\* The score a payload counts with: its priority_score, 0 when it has none.
ScoreOrZero(p) == IF "priority_score" \in DOMAIN p THEN p["priority_score"] ELSE 0

\* C15: a filter node with a single score rule with operator gt and
\* threshold T passes exactly the contexts whose priority_score is strictly
\* greater than T, a context without priority_score counting as 0; with
\* operator lt it passes exactly those strictly less than T; every other
\* context is dropped.
C15_ScoreFilter ==
    FilterRan("score") =>
        /\ TheRule.operator = "gt" =>
              IF ScoreOrZero(RootFields) > TheRule.num THEN Kept ELSE Dropped
        /\ TheRule.operator = "lt" =>
              IF ScoreOrZero(RootFields) < TheRule.num THEN Kept ELSE Dropped

\* A context without priority_score passed by lt 5, as score 0 is.
C15_Witness ==
    /\ FilterRan("score")
    /\ TheRule.operator = "lt"
    /\ TheRule.num = 5
    /\ "priority_score" \notin DOMAIN RootFields
    /\ Kept
    /\ pc = "done"

\* The date a payload carries: publishedAt, else published_date.
HasDate(p) == "publishedAt" \in DOMAIN p \/ "published_date" \in DOMAIN p
DateOf(p) ==
    IF "publishedAt" \in DOMAIN p THEN p["publishedAt"] ELSE p["published_date"]

\* C16: a filter node with a single date rule with operator after rejects
\* every context whose date is not strictly after the rule's date, a
\* context with no valid date included; operator before rejects every
\* context whose date is not strictly before the rule's date.
C16_DateFilterRejects ==
    FilterRan("date") =>
        /\ ( /\ TheRule.operator = "after"
             /\ ~(HasDate(RootFields) /\ DateOf(RootFields) > TheRule.num) )
           => Dropped
        /\ ( /\ TheRule.operator = "before"
             /\ ~(HasDate(RootFields) /\ DateOf(RootFields) < TheRule.num) )
           => Dropped

\* C17: a run that completes normally returns exactly one execution
\* record, however many contexts the final generation holds: the record of
\* the initial insert, by its id, with status completed.
C17_ReturnsOneRecord ==
    /\ ( /\ pc = "done"
         /\ updates # <<>>
         /\ updates[1].status = "completed"
         /\ updates[1].outcome # "throw" )
       => outcome.kind = "returned"
    /\ outcome.kind = "returned" =>
         /\ Len(outcome.records) = 1
         /\ outcome.records[1].id = ExecutionId
         /\ outcome.records[1].status = "completed"

\* A run returned with two contexts in its final generation.
C17_Witness ==
    /\ pc = "done"
    /\ outcome.kind = "returned"
    /\ Len(executionContexts) = 2
    /\ Len(outcome.records) = 1

\* C18: the result written by the 'completed' update describes the final
\* generation: contexts is the number of contexts live when the node loop
\* ended and final_results lists exactly those contexts' data, in order.
C18_ResultDescribesGeneration ==
    record.status = "completed" =>
        /\ Len(record.result) = 1
        /\ record.result[1].contexts = Len(executionContexts)
        /\ Len(record.result[1].final_results) = Len(executionContexts)
        /\ \A i \in DOMAIN executionContexts :
              record.result[1].final_results[i] = executionContexts[i].data

\* A completed record over two contexts with different data.
C18_Witness ==
    /\ record.status = "completed"
    /\ Len(executionContexts) = 2
    /\ executionContexts[1].data # executionContexts[2].data
    /\ record.result[1].contexts = 2
    /\ trace # <<>>

\* C20: when a handler returns a single value that is neither null nor
\* undefined for a context, the list under construction grows by exactly
\* one context, with the executionId of the input context and the returned
\* value as data.
C20_SingleResultReusesContext ==
    [][ (pc = "loop" /\ trace' # trace /\ LastEntry(trace').result = "single") =>
          LET e == LastEntry(trace')
              parent == executionContexts[ci]
              built == Built(executionContexts, ci, newContexts', executionContexts')
              base == Len(newContexts)
          IN  /\ Len(e.items) = 1
              /\ Len(built) = base + 1
              /\ SubSeq(built, 1, base) = newContexts
              /\ built[base + 1].executionId = parent.executionId
              /\ built[base + 1].data = e.items[1]
      ]_vars

\* A publisher has returned a single value that differs from its input for
\* a context that a discovery node created, and the context is live under
\* the id it had.
C20_Witness ==
    \E i \in DOMAIN trace :
        /\ trace[i].result = "single"
        /\ nodes[trace[i].node].type = "publisher"
        /\ Len(trace[i].context) > 1
        /\ \E c \in Range(executionContexts \o newContexts) :
              /\ c.executionId = trace[i].context
              /\ c.data = trace[i].items[1]
              /\ "published_article" \in DOMAIN Props(c.data)

\* The call of topologicalSort has returned (the root context was created)
\* or has thrown.
SortFinished ==
    \/ executionContexts # <<>>
    \/ trace # <<>>
    \/ caught = CircularError

\* C19: when every store and remote call returns, every run terminates:
\* it reaches its end, and when its record was created it has by then come
\* out of topologicalSort and issued a terminal update.
C19_Terminates ==
    <>( /\ pc = "done"
        /\ record.status # "none" =>
              /\ SortFinished
              /\ updates # <<>>
              /\ updates[Len(updates)].status \in {"completed", "failed"} )

\* A run over three nodes has ended after its terminal update.
C19_Witness ==
    /\ pc = "done"
    /\ Len(sortedIdx) = 3
    /\ Len(trace) >= 3
    /\ updates # <<>>

\* C21: every context a node produces, by fan-out or by reuse, has the
\* metadata of its parent plus exactly one entry, under the key
\* nodeType_nodeId of the node just processed and holding the new
\* context's data; every entry of the parent is kept with its value.
C21_MetadataGrowsByOne ==
    [][ (pc = "loop" /\ trace' # trace
         /\ LastEntry(trace').result \in {"array", "single"}) =>
          LET parent == executionContexts[ci]
              node == nodes[sortedIdx[ni]]
              key == node.type \o "_" \o node.id
              built == Built(executionContexts, ci, newContexts', executionContexts')
          IN  \A i \in (Len(newContexts) + 1)..Len(built) :
                /\ key \notin DOMAIN parent.metadata
                /\ DOMAIN built[i].metadata = DOMAIN parent.metadata \cup {key}
                /\ built[i].metadata[key] = built[i].data
                /\ \A k \in DOMAIN parent.metadata :
                      built[i].metadata[k] = parent.metadata[k]
      ]_vars

\* C21 as the code has it: every context a node produces has the metadata
\* of its parent with the entry under the key nodeType_nodeId set to the
\* new context's data; every entry under another key is kept with its
\* value; the key is new, and the metadata one entry larger, unless an
\* earlier node's type and id spell the same key.
C21_MetadataSetsOneKey ==
    [][ (pc = "loop" /\ trace' # trace
         /\ LastEntry(trace').result \in {"array", "single"}) =>
          LET parent == executionContexts[ci]
              node == nodes[sortedIdx[ni]]
              key == node.type \o "_" \o node.id
              built == Built(executionContexts, ci, newContexts', executionContexts')
          IN  \A i \in (Len(newContexts) + 1)..Len(built) :
                /\ DOMAIN built[i].metadata = DOMAIN parent.metadata \cup {key}
                /\ built[i].metadata[key] = built[i].data
                /\ \A k \in DOMAIN parent.metadata \ {key} :
                      built[i].metadata[k] = parent.metadata[k]
                /\ key \in DOMAIN parent.metadata =>
                      \E j \in 1..(ni - 1) :
                         LET m == nodes[sortedIdx[j]]
                         IN  /\ <<m.type, m.id>> # <<node.type, node.id>>
                             /\ m.type \o "_" \o m.id = key
      ]_vars

\* A context that two nodes have handled carries both their entries, the
\* first one with the value it was given.
C21_Witness ==
    /\ Len(trace) >= 2
    /\ nodes # SameKeyNodes
    /\ \E c \in Range(executionContexts) :
          /\ Cardinality(DOMAIN c.metadata) = 2
          /\ \E k \in DOMAIN c.metadata : c.metadata[k] # c.data
          /\ \E k \in DOMAIN c.metadata : c.metadata[k] = c.data

\* The node types executeNode has a case for (lines 144-170).
KnownTypes == {"trigger", "filter"} \cup DiscoveryTypes \cup SingleRemoteTypes
\* A trigger node, or a node of a type executeNode does not know.
PassesThrough(node) == node.type = "trigger" \/ node.type \notin KnownTypes

\* C22: for every payload, a context processed by a trigger node or by a
\* node of unknown type passes through: exactly one context is added for
\* it, with the same executionId and the same data, and no error is raised.
C22_PassThroughOneContext ==
    [][ (pc = "loop" /\ trace' # trace /\ PassesThrough(nodes[sortedIdx[ni]])) =>
          LET parent == executionContexts[ci]
              built == Built(executionContexts, ci, newContexts', executionContexts')
              base == Len(newContexts)
          IN  /\ Len(built) = base + 1
              /\ built[base + 1].executionId = parent.executionId
              /\ built[base + 1].data = parent.data
              /\ LastEntry(trace').result # "throw"
              /\ caught' = NoError
      ]_vars

\* C22 as the code has it: the handler of a trigger node or of a node of
\* unknown type returns the context's data as it is, calls no collaborator
\* and raises nothing; a payload that is an object then gives exactly one
\* context with the same executionId and data, while a payload that is an
\* array is fanned out like any returned list, one context per element
\* under the ids parentId-nodeId-index.
C22_PassThroughHandler ==
    [][ (pc = "loop" /\ trace' # trace /\ PassesThrough(nodes[sortedIdx[ni]])) =>
          LET parent == executionContexts[ci]
              node == nodes[sortedIdx[ni]]
              e == LastEntry(trace')
              built == Built(executionContexts, ci, newContexts', executionContexts')
              base == Len(newContexts)
          IN  /\ calls' = calls
              /\ caught' = NoError
              /\ SubSeq(built, 1, base) = newContexts
              /\ IF parent.data.isArray
                 THEN /\ e.result = "array"
                      /\ e.items = parent.data.elems
                      /\ Len(built) = base + Len(parent.data.elems)
                      /\ \A i \in DOMAIN parent.data.elems :
                            /\ built[base + i].data = parent.data.elems[i]
                            /\ built[base + i].executionId =
                                  parent.executionId \o <<"-", node.id, "-", Digits[i]>>
                 ELSE /\ e.result = "single"
                      /\ e.items = <<parent.data>>
                      /\ Len(built) = base + 1
                      /\ built[base + 1].executionId = parent.executionId
                      /\ built[base + 1].data = parent.data
      ]_vars

\* A trigger node has fanned an array payload out, and a node of unknown
\* type has passed an object on.
C22_Witness ==
    /\ \E i \in DOMAIN trace :
          /\ nodes[trace[i].node].type = "trigger"
          /\ trace[i].result = "array"
          /\ trace[i].count = 2
    /\ \E i \in DOMAIN trace :
          /\ nodes[trace[i].node].type \notin KnownTypes
          /\ trace[i].result = "single"
          /\ \E c \in Range(executionContexts \o newContexts) :
                c.executionId = trace[i].context /\ c.data = trace[i].items[1]

ResearchTypes == {"perplexity-research", "multi-source-synthesizer", "ai-processor"}
\* The field under which a handler stores its collaborator's result.
ResultField(type) ==
    CASE type = "perplexity-research" -> "research_data"
      [] type = "multi-source-synthesizer" -> "synthesized_content"
      [] type = "ai-processor" -> "ai_content"
      [] type = "publisher" -> "published_article"

\* The fields of `after` besides those of Except equal those of `before`.
KeepsFields(before, after, Except) ==
    \A k \in DOMAIN before \ Except :
        k \in DOMAIN after /\ after[k] = before[k]

\* C23: a research, synthesis or AI-processing handler that returns does
\* so with a single result in which every field of the input data is
\* present with its previous value, plus the new field holding the
\* collaborator's result.
C23_MergeKeepsEveryField ==
    [][ (pc = "loop" /\ trace' # trace
         /\ nodes[sortedIdx[ni]].type \in ResearchTypes
         /\ LastEntry(trace').result # "throw") =>
          LET e == LastEntry(trace')
              before == Props(executionContexts[ci].data)
          IN  /\ e.result = "single"
              /\ KeepsFields(before, Props(e.items[1]), {})
              /\ ResultField(nodes[sortedIdx[ni]].type) \in DOMAIN Props(e.items[1])
      ]_vars

\* C23 as the code has it: the result is the input data with the new field
\* set to the collaborator's result, execution_context set to the id of
\* the context being processed and, for perplexity-research, source_type
\* set to 'research'; every other field of the input keeps its value;
\* when the collaborator fails the handler throws instead.
C23_MergeKeepsOtherFields ==
    [][ (pc = "loop" /\ trace' # trace
         /\ nodes[sortedIdx[ni]].type \in ResearchTypes) =>
          LET e == LastEntry(trace')
              node == nodes[sortedIdx[ni]]
              context == executionContexts[ci]
              before == Props(context.data)
              written == {ResultField(node.type), "execution_context"}
                         \cup (IF node.type = "perplexity-research"
                               THEN {"source_type"} ELSE {})
          IN  /\ e.result \in {"single", "throw"}
              /\ e.result = "single" =>
                    LET after == Props(e.items[1])
                    IN  /\ ~e.items[1].isArray
                        /\ DOMAIN after = DOMAIN before \cup written
                        /\ KeepsFields(before, after, written)
                        /\ after[ResultField(node.type)] = FunctionOf(node.type)
                        /\ after["execution_context"] = context.executionId
                        /\ node.type = "perplexity-research" =>
                              after["source_type"] = "research"
      ]_vars

\* A research node has returned for a discovered item: the item's title is
\* kept, its source_type and execution_context are replaced.
C23_Witness ==
    \E i \in DOMAIN trace :
        /\ nodes[trace[i].node].type = "perplexity-research"
        /\ trace[i].result = "single"
        /\ Len(trace[i].context) > 1
        /\ Props(trace[i].items[1])["title"] = TitleLaunch
        /\ Props(trace[i].items[1])["source_type"] = "research"
        /\ Props(trace[i].items[1])["execution_context"] = trace[i].context

\* The node types whose handler calls a collaborator.
RemoteTypes == DiscoveryTypes \cup ResearchTypes \cup {"publisher"}
IsRemoteEntry(e) == nodes[e.node].type \in RemoteTypes

\* C24: over a whole run every discovery, research, synthesis, AI and
\* publisher node calls its collaborator exactly once for each context
\* that is live when the node is processed, a failed call is not repeated,
\* and trigger, filter and unknown-type nodes call no collaborator.
C24_OneCallPerContext ==
    /\ [](LET remote == SelectSeq(trace, IsRemoteEntry)
          IN  /\ Len(calls) = Len(remote)
              /\ \A i \in DOMAIN calls :
                    /\ calls[i].node = nodes[remote[i].node].id
                    /\ calls[i].context = remote[i].context
              /\ \A i, j \in DOMAIN trace :
                    (trace[i].node = trace[j].node
                     /\ trace[i].context = trace[j].context) => i = j
              /\ pc = "loop" =>
                    LET done == SelectSeq(trace, LAMBDA e : e.node = sortedIdx[ni])
                    IN  /\ Len(done) = ci - 1
                        /\ \A i \in DOMAIN done :
                              done[i].context = executionContexts[i].executionId)
    /\ [][ trace' # trace =>
             /\ pc = "loop"
             /\ Len(trace') = Len(trace) + 1
             /\ LastEntry(trace').node = sortedIdx[ni]
             /\ LastEntry(trace').context = executionContexts[ci].executionId
             /\ (ci = Len(executionContexts)) = (pc' # "loop" \/ ni' # ni) ]_vars

\* A run has ended in which a discovery node was called once and a
\* publisher once for each of the two contexts it found, one of these
\* calls failing.
C24_Witness ==
    /\ pc = "done"
    /\ Len(calls) = 3
    /\ \E i, j \in DOMAIN trace :
          /\ i # j
          /\ nodes[trace[i].node].type = "publisher"
          /\ nodes[trace[j].node].type = "publisher"
          /\ trace[i].result = "throw"
          /\ trace[j].result = "single"
    /\ \E i \in DOMAIN trace : nodes[trace[i].node].type \in DiscoveryTypes

\* The place of a node in the order topologicalSort returned.
PlaceOf(n) == CHOOSE k \in DOMAIN sortedIdx : sortedIdx[k] = n

\* C25: nodes are processed one at a time in the order topologicalSort
\* returned: the handler invocations follow that order with no node
\* skipped and none taken up again, and the loop moves to the next node
\* only after the last context of the current generation.
C25_NodesInSortedOrder ==
    /\ [](/\ \A i \in DOMAIN trace :
                \E k \in 1..ni : sortedIdx[k] = trace[i].node
          /\ \A i, j \in DOMAIN trace :
                i < j => PlaceOf(trace[i].node) <= PlaceOf(trace[j].node)
          /\ \A i, j \in DOMAIN trace :
                (i < j /\ trace[i].node = trace[j].node) =>
                    trace[i].context # trace[j].context
          /\ \A k \in 1..(ni - 1) :
                \E i \in DOMAIN trace : trace[i].node = sortedIdx[k])
    /\ [][ (pc = "loop" /\ ni' # ni) =>
             /\ ni' = ni + 1
             /\ ci = Len(executionContexts)
             /\ executionContexts' # <<>> ]_vars

\* Three nodes have been processed, the second of them for two contexts.
C25_Witness ==
    /\ ni = 3
    /\ \E i \in DOMAIN trace : trace[i].node = sortedIdx[3]
    /\ Cardinality({i \in DOMAIN trace : trace[i].node = sortedIdx[2]}) = 2
    /\ sortedIdx # <<1, 2, 3>>

\* C26: the publisher handler calls the publish collaborator with status
\* 'published' exactly when the node's autoPublish flag is set and with
\* 'draft' otherwise, and its result is the input data with every prior
\* field kept at its value plus the publish result.
C26_PublisherKeepsEveryField ==
    [][ (pc = "loop" /\ trace' # trace
         /\ nodes[sortedIdx[ni]].type = "publisher") =>
          LET e == LastEntry(trace')
              node == nodes[sortedIdx[ni]]
              before == Props(executionContexts[ci].data)
          IN  /\ Len(calls') = Len(calls) + 1
              /\ (LastEntry(calls').status = "published") = node.config.autoPublish
              /\ (LastEntry(calls').status = "draft") = ~node.config.autoPublish
              /\ e.result # "throw" =>
                    /\ e.result = "single"
                    /\ KeepsFields(before, Props(e.items[1]), {})
                    /\ "published_article" \in DOMAIN Props(e.items[1])
      ]_vars

\* C26 as the code has it: one call with status 'published' exactly when
\* autoPublish is set, 'draft' otherwise; when the call succeeds the
\* result is the input data with published_article set to the publish
\* result and execution_context set to the id of the context being
\* processed, every other field keeping its value; when it fails the
\* handler throws.
C26_PublisherStatusAndMerge ==
    [][ (pc = "loop" /\ trace' # trace
         /\ nodes[sortedIdx[ni]].type = "publisher") =>
          LET e == LastEntry(trace')
              node == nodes[sortedIdx[ni]]
              context == executionContexts[ci]
              before == Props(context.data)
              written == {"published_article", "execution_context"}
          IN  /\ Len(calls') = Len(calls) + 1
              /\ LastEntry(calls').fn = "create-article-from-ai"
              /\ (LastEntry(calls').status = "published") = node.config.autoPublish
              /\ (LastEntry(calls').status = "draft") = ~node.config.autoPublish
              /\ e.result \in {"single", "throw"}
              /\ e.result = "single" =>
                    LET after == Props(e.items[1])
                    IN  /\ DOMAIN after = DOMAIN before \cup written
                        /\ KeepsFields(before, after, written)
                        /\ after["published_article"] = "create-article-from-ai"
                        /\ after["execution_context"] = context.executionId
      ]_vars

\* A publisher with autoPublish set has published a discovered item: the
\* call carried 'published', the title is kept, execution_context is the
\* id of the item's context.
C26_Witness ==
    \E i \in DOMAIN trace, c \in DOMAIN calls :
        /\ nodes[trace[i].node].type = "publisher"
        /\ nodes[trace[i].node].config.autoPublish
        /\ trace[i].result = "single"
        /\ Len(trace[i].context) > 1
        /\ calls[c].context = trace[i].context
        /\ calls[c].status = "published"
        /\ Props(trace[i].items[1])["title"] = TitleLaunch
        /\ Props(trace[i].items[1])["execution_context"] = trace[i].context

\* The first node of the list that carries its id.
FirstWithId(ns, v) == \A j \in DOMAIN ns : ns[j].id = ns[v].id => v <= j

\* u -> v as the sort follows it: u lists the id of v, and v is the first
\* node carrying that id.
Follows(ns, u, v) == Edge(ns, u, v) /\ FirstWithId(ns, v)

RECURSIVE FollowSet(_, _)
FollowSet(ns, S) ==
    LET T == S \cup {v \in DOMAIN ns : \E u \in S : Follows(ns, u, v)}
    IN  IF T = S THEN S ELSE FollowSet(ns, T)

\* u lies on a cycle of edges between nodes the sort can reach by id.
OnFollowedCycle(ns, u) ==
    /\ FirstWithId(ns, u)
    /\ u \in FollowSet(ns, {v \in DOMAIN ns : Follows(ns, u, v)})

\* C27: topologicalSort never fails because of an edge to a missing id or
\* because two nodes share an id: when it fails some node lies on a cycle;
\* when it returns, the output holds exactly the first node of every id,
\* each once, so a dangling edge adds nothing and a later node with a
\* repeated id is left out.
C27_DanglingAndDuplicateTolerated ==
    /\ pc = "threw" => \E u \in DOMAIN nodes : OnFollowedCycle(nodes, u)
    /\ pc = "sorted" =>
          /\ \A i, j \in DOMAIN sortedIdx : sortedIdx[i] = sortedIdx[j] => i = j
          /\ Range(sortedIdx) = {v \in DOMAIN nodes : FirstWithId(nodes, v)}

\* The sort returned one node for a list of two nodes that share an id,
\* the first of them pointing to an id no node has.
C27_Witness ==
    /\ pc = "sorted"
    /\ Len(nodes) = 2
    /\ nodes[1].id = nodes[2].id
    /\ nodes[1].connected # <<>>
    /\ ~EdgesExist(nodes)
    /\ sortedIdx = <<1>>

\* Some node of the list lies on a cycle of connected edges.
HasCycle(ns) == \E u \in DOMAIN ns : OnFollowedCycle(ns, u)

\* C29: for every node list with a cycle among existing nodes (a self-loop,
\* a cycle no trigger reaches, a list without trigger) topologicalSort
\* throws the circular-dependency error: once the record is created and
\* the sort has been called, no order exists and no node is executed, and
\* the run ends having issued the 'failed' update with that message and
\* raising to the caller (the cycle error unless the update itself
\* rejected); the persisted record is failed when the store applied it.
C29_EveryCycleFails ==
    (HasCycle(nodes) /\ pc \notin {"insert", "sort"} /\ ~InsertFailed) =>
        /\ caught = CircularError
        /\ sortedIdx = <<>>
        /\ trace = <<>>
        /\ calls = <<>>
        /\ pc \in {"catch", "done"}
        /\ pc = "done" =>
              /\ updates # <<>>
              /\ LastEntry(updates).status = "failed"
              /\ outcome.kind = "raised"
              /\ LastEntry(updates).outcome # "throw" => outcome = Raised(CircularError)
              /\ LastEntry(updates).outcome = "ok" =>
                    /\ record.status = "failed"
                    /\ record.error_message = <<CircularMessage>>

\* A run ended failed on a list that has a trigger, where the cycle is a
\* self-loop the trigger does not reach.
C29_Witness ==
    /\ pc = "done"
    /\ \E t \in DOMAIN nodes : nodes[t].type = "trigger"
    /\ ~CycleFromTrigger(nodes)
    /\ \E u \in DOMAIN nodes : nodes[u].connected = <<nodes[u].id>>
    /\ record.status = "failed"
    /\ outcome = Raised(CircularError)

\* A run ended failed on a list without any trigger whose nodes form a
\* cycle of three.
C29_NoTriggerWitness ==
    /\ pc = "done"
    /\ Len(nodes) = 3
    /\ \A t \in DOMAIN nodes : nodes[t].type # "trigger" /\ nodes[t].connected # <<nodes[t].id>>
    /\ \A t \in DOMAIN nodes : OnCycle(nodes, t)
    /\ record.status = "failed"

\* The executionIds of a list of contexts differ pairwise.
DistinctIds(contexts) ==
    \A i, j \in DOMAIN contexts :
        contexts[i].executionId = contexts[j].executionId => i = j

\* id is the record id followed by segments -nodeId-index, each of them
\* written by a fan-out that has happened: a processed node returned an
\* array with more than index items for the context whose id is the part
\* of id before the segment.
IsRunId(id) ==
    /\ Len(id) % 4 = 1
    /\ SubSeq(id, 1, 1) = ExecutionId
    /\ \A m \in 1..((Len(id) - 1) \div 4) :
          /\ id[4 * m - 2] = "-"
          /\ id[4 * m] = "-"
          /\ \E i \in DOMAIN trace :
                /\ nodes[trace[i].node].id = id[4 * m - 1]
                /\ trace[i].context = SubSeq(id, 1, 4 * m - 3)
                /\ trace[i].result = "array"
                /\ \E k \in 0..(trace[i].count - 1) : id[4 * m + 1] = Digits[k + 1]

\* C28: in every generation of every run (the live one and the one being
\* built) the executionIds are pairwise distinct, and each is the run's
\* record id or that id extended by -nodeId-index segments of nodes
\* already processed.
C28_LiveIdsDistinct ==
    /\ DistinctIds(executionContexts)
    /\ DistinctIds(newContexts)
    /\ \A i \in DOMAIN executionContexts : IsRunId(executionContexts[i].executionId)
    /\ \A i \in DOMAIN newContexts : IsRunId(newContexts[i].executionId)

\* Four live contexts after two fan-outs in a row, each id carrying two
\* segments.
C28_Witness ==
    /\ Len(executionContexts) = 4
    /\ \A i \in DOMAIN executionContexts : Len(executionContexts[i].executionId) = 9
    /\ \E i, j \in DOMAIN executionContexts :
          /\ executionContexts[i].executionId[5] # executionContexts[j].executionId[5]
          /\ executionContexts[i].executionId[9] = executionContexts[j].executionId[9]

\* The rules of the filter node of a one-node run whose handler has run.
FilterHandled == trace # <<>> /\ nodes[1].type = "filter"
TheRules == nodes[1].config.filters

\* A rule the switch has no case for, or a date or score rule whose
\* operator no branch tests.
Unrecognized(rule) ==
    \/ rule.type \notin {"keyword", "date", "score"}
    \/ rule.type = "date" /\ rule.operator \notin {"after", "before"}
    \/ rule.type = "score" /\ rule.operator \notin {"gt", "lt"}

\* The handler's verdict on the root context for a filter configured with
\* the given rules: TRUE when it returns null.
VerdictOf(rules) ==
    executeFilterNode(Node("f", "filter", <<>>, Config(rules, FALSE)),
                      Context(ExecutionId, triggerData.data, <<>>)).kind = "null"

\* The rules with places i and j exchanged.
Swapped(rules, i, j) ==
    [k \in DOMAIN rules |->
        IF k = i THEN rules[j] ELSE IF k = j THEN rules[i] ELSE rules[k]]

\* The subsequence of the recognized rules.
RECURSIVE Recognized(_)
Recognized(rules) ==
    IF rules = <<>> THEN <<>>
    ELSE IF Unrecognized(Head(rules)) THEN Recognized(Tail(rules))
    ELSE <<Head(rules)>> \o Recognized(Tail(rules))

\* C30: for a filter node with several rules the context's survival does
\* not depend on the order of the rules: it is kept exactly when none of
\* the rules, taken alone, rejects it, the verdict is the same with any
\* two rules exchanged, and a rule of unrecognized kind or with an
\* unrecognized operator rejects nothing and can be left out without
\* changing the verdict.
C30_RuleOrderIrrelevant ==
    FilterHandled =>
        /\ Kept \/ Dropped
        /\ Kept <=> \A k \in DOMAIN TheRules : ~VerdictOf(<<TheRules[k]>>)
        /\ \A i, j \in DOMAIN TheRules :
              VerdictOf(Swapped(TheRules, i, j)) <=> Dropped
        /\ \A k \in DOMAIN TheRules :
              Unrecognized(TheRules[k]) => ~VerdictOf(<<TheRules[k]>>)
        /\ VerdictOf(Recognized(TheRules)) <=> Dropped

\* A context dropped by the second of two rules, the first being a rule
\* of unknown type: the score rule rejects it, the other order gives the
\* same verdict.
C30_Witness ==
    /\ FilterHandled
    /\ Len(TheRules) = 2
    /\ TheRules[1].type = "length"
    /\ TheRules[2] = Rule("score", "gt", <<>>, 5)
    /\ "priority_score" \notin DOMAIN RootFields
    /\ Dropped
    /\ pc = "done"

\* A context kept by two recognized rules, a keyword rule and a date rule.
C30_KeptWitness ==
    /\ FilterHandled
    /\ Len(TheRules) = 2
    /\ TheRules[1] = Rule("date", "after", <<>>, 10)
    /\ TheRules[2] = KeywordRule(KeywordAi)
    /\ Kept
    /\ pc = "done"

====
